---- MODULE Spec2Model ----
(***************************************************************************)
(* repo-check: the concurrent scan-and-render pipeline of                  *)
(* src/src/repo_check/cli.py.                                              *)
(*                                                                         *)
(*   Spec       _run_checks: one run_one task per entry behind an          *)
(*              asyncio.Semaphore, probes in executor threads, the live    *)
(*              or static rendering of the table on stdout.                *)
(*   LiveSpec   Spec with the fairness of the event loop and the threads.  *)
(*   ProbeSpec  _check_repo run against the scripted _run_git of           *)
(*              src/tests/test_cli_sync_status.py.                         *)
(*   RenderSpec _check_repo run against git and the table row of its       *)
(*              result.                                                    *)
(*   RemoteSpec the remote name of an upstream ref.                        *)
(*   ScanSpec   _build_scan_list run on a directory tree, more than once.  *)
(*   MainSpec   main: the max_workers that the config file and the flag    *)
(*              hand to _run_checks.                                       *)
(*                                                                         *)
(* Optional[T] is modelled as a sequence: None is <<>>, a value v is <<v>>.*)
(***************************************************************************)
EXTENDS Integers, Sequences, FiniteSets, TLC

VARIABLES
    names_and_paths,  \* List[Tuple[str, str]] handed to _run_checks
    max_workers,      \* the max_workers argument of _run_checks
    use_color,        \* sys.stdout.isatty() (main); allow_dynamic is the same value
    rcpc,             \* position of the _run_checks coroutine
    results,          \* results: List[Optional[RepoResult]]
    sem_value,        \* asyncio.Semaphore._value
    sem_waiters,      \* asyncio.Semaphore._waiters (FIFO of task indexes)
    taskpc,           \* position of each run_one task
    probe,            \* state of each _check_repo call in the executor
    stdout,           \* what has been written to sys.stdout, one item per call
    git_env,          \* ProbeSpec: the _run_git that _check_repo is run against
    probe_run,        \* ProbeSpec: calls issued and outcome of _check_repo
    ref_text,         \* RemoteSpec: the upstream ref whose remote is extracted
    ref_remote,       \* RemoteSpec: the remote name extracted from ref_text
    scan_args,        \* ScanSpec: the directory tree and the arguments of _build_scan_list
    scan_lists,       \* ScanSpec: the list returned by each run of _build_scan_list
    cli_input         \* MainSpec: os.cpu_count(), the config file and the --max-workers flag

\* the variables of the specifications of the pure functions
pureVars == <<ref_text, ref_remote, scan_args, scan_lists, cli_input>>

vars == <<names_and_paths, max_workers, use_color, rcpc, results, sem_value,
          sem_waiters, taskpc, probe, stdout, git_env, probe_run, pureVars>>

----------------------------------------------------------------------------
(* Bounds of the model *)

MaxEntries == 3
MaxWorkers == 2
MaxRefLen == 4
MaxChildren == 3
MaxRuns == 2

----------------------------------------------------------------------------
(* Generic helpers *)

None == <<>>
Some(v) == <<v>>

Max2(a, b) == IF a >= b THEN a ELSE b

----------------------------------------------------------------------------
(* Constants of cli.py *)

ANSI_RESET == "ESC[0m"
ANSI_RED == "ESC[31m"
ANSI_GREEN == "ESC[32m"
ANSI_YELLOW == "ESC[33m"
ANSI_BLUE == "ESC[34m"
ANSI_CYAN == "ESC[36m"
ANSI_DIM == "ESC[2m"

LABEL_PENDING == "pending"
LABEL_NOT_INIT == "not-init"
LABEL_UNKNOWN == "unknown"
LABEL_DETACHED == "detached"
LABEL_CLEAN == "clean"
LABEL_DIRTY == "dirty"
LABEL_ORIGIN == "origin"
LABEL_NO_REMOTE == "no-remote"
LABEL_IN_SYNC == "in-sync"
LABEL_NO_UPSTREAM == "no-upstream"
LABEL_ERROR == "error"

\* main always passes show_remote=True
show_remote == TRUE

----------------------------------------------------------------------------
(* _run_git and the text it returns *)

\* What one _run_git call gives back: the tuple (returncode, stdout, stderr),
\* or an exception raised by the call, or no return at all (a hung process).
\* The stdout of "rev-list --count" is a sequence of characters, because
\* _check_repo parses it; every other text is an opaque string.
Reply(code, out, err) == [status |-> "ok", code |-> code, out |-> out, err |-> err]
Raises(exc) == [status |-> "raise", code |-> 0, out |-> "", err |-> exc]
Hangs == [status |-> "hang", code |-> 0, out |-> "", err |-> ""]

GIT_WORK_TREE == <<"rev-parse", "--is-inside-work-tree">>
GIT_BRANCH == <<"rev-parse", "--abbrev-ref", "HEAD">>
GIT_STATUS == <<"status", "--porcelain">>
GIT_ORIGIN == <<"remote", "get-url", "origin">>
GIT_UPSTREAM == <<"rev-parse", "--abbrev-ref", "--symbolic-full-name", "@{u}">>
GIT_FETCH_ORIGIN == <<"fetch", "--quiet", "--prune", "--no-tags", "origin">>
GIT_COUNT == <<"rev-list", "--left-right", "--count", "HEAD...@{u}">>

Whitespace == {" ", "\t", "\n"}
Digits == {"0", "1", "2", "3", "4", "5", "6", "7", "8", "9"}

\* str.split(): the maximal runs of non-whitespace characters
RECURSIVE SplitFrom(_, _)
SplitFrom(text, cur) ==
    IF text = <<>> THEN (IF cur = <<>> THEN <<>> ELSE <<cur>>)
    ELSE IF Head(text) \in Whitespace
         THEN (IF cur = <<>> THEN <<>> ELSE <<cur>>) \o SplitFrom(Tail(text), <<>>)
         ELSE SplitFrom(Tail(text), Append(cur, Head(text)))

Split(text) == SplitFrom(text, <<>>)

\* str.isdigit()
IsDigit(tok) == tok # <<>> /\ \A k \in 1..Len(tok) : tok[k] \in Digits

DigitValue(c) ==
    CASE c = "0" -> 0 [] c = "1" -> 1 [] c = "2" -> 2 [] c = "3" -> 3
      [] c = "4" -> 4 [] c = "5" -> 5 [] c = "6" -> 6 [] c = "7" -> 7
      [] c = "8" -> 8 [] c = "9" -> 9

\* int() of a string of digits
RECURSIVE ToInt(_)
ToInt(tok) ==
    IF tok = <<>> THEN 0
    ELSE 10 * ToInt(SubSeq(tok, 1, Len(tok) - 1)) + DigitValue(tok[Len(tok)])

\* The _run_git a probe runs against.  kind "git": the real _run_git, whose
\* reply depends on the arguments only.  kind "script": _fake_run_git of the
\* tests, which replies by call position and asserts the expected arguments.
RunGit(env, k, args) ==
    IF env.kind = "git" THEN env.git[args]
    ELSE IF k <= Len(env.script) /\ env.script[k][1] = args
         THEN env.script[k][2]
         ELSE Raises("AssertionError")

----------------------------------------------------------------------------
(* _check_repo *)

RepoResult(name, path, is_repo, branch, is_clean, origin_url, upstream_ref, ahead_count, behind_count, error) ==
    [name |-> name, path |-> path, is_repo |-> is_repo, branch |-> branch,
     is_clean |-> is_clean, origin_url |-> origin_url,
     upstream_ref |-> upstream_ref, ahead_count |-> ahead_count,
     behind_count |-> behind_count, error |-> error]

NoResult == RepoResult("", "", FALSE, None, None, None, None, None, None, None)

\* how a _check_repo call ends, with the _run_git calls it made
Returned(calls, result) == [kind |-> "returned", calls |-> calls, result |-> result]
Aborted(calls, reply) ==
    [kind |-> IF reply.status = "hang" THEN "hung" ELSE "raised",
     calls |-> calls, result |-> NoResult]

\* lines 246-257: the counts of "rev-list --left-right --count"
ParseCounts(reply) ==
    IF reply.code = 0 /\ reply.out # <<>>
    THEN LET parts == Split(reply.out) IN
         IF Len(parts) = 2 /\ \A k \in 1..2 : IsDigit(parts[k])
         THEN [behind_count |-> Some(ToInt(parts[1])),
               ahead_count |-> Some(ToInt(parts[2]))]
         ELSE [behind_count |-> None, ahead_count |-> None]
    ELSE [behind_count |-> None, ahead_count |-> None]

\* lines 241-276: from the origin query to the result
CheckRepoRemote(env, path, name, branch, status) ==
    LET c4 == <<GIT_WORK_TREE, GIT_BRANCH, GIT_STATUS, GIT_ORIGIN>>
        r4 == RunGit(env, 4, GIT_ORIGIN)
        origin_url == IF r4.code = 0 /\ r4.out # "" THEN Some(r4.out) ELSE None
        c5 == Append(c4, GIT_UPSTREAM)
        r5 == RunGit(env, 5, GIT_UPSTREAM)
        c6 == Append(c5, GIT_COUNT)
        r6 == RunGit(env, 6, GIT_COUNT)
        is_clean == Some(status = "")
    IN  IF r4.status # "ok" THEN Aborted(c4, r4)
        ELSE IF r5.status # "ok" THEN Aborted(c5, r5)
        ELSE IF r5.code = 0 /\ r5.out # ""
             THEN IF r6.status # "ok" THEN Aborted(c6, r6)
                  ELSE Returned(c6,
                         RepoResult(name, path, TRUE, Some(branch), is_clean,
                                    origin_url, Some(r5.out),
                                    ParseCounts(r6).ahead_count,
                                    ParseCounts(r6).behind_count, None))
             ELSE Returned(c5,
                    RepoResult(name, path, TRUE, Some(branch), is_clean,
                               origin_url, None, None, None, None))

\* err or None
ErrOrNone(err) == IF err # "" THEN Some(err) ELSE None

CheckRepo(env, path, name) ==
    LET c1 == <<GIT_WORK_TREE>>
        r1 == RunGit(env, 1, GIT_WORK_TREE)
        c2 == Append(c1, GIT_BRANCH)
        r2 == RunGit(env, 2, GIT_BRANCH)
        c3 == Append(c2, GIT_STATUS)
        r3 == RunGit(env, 3, GIT_STATUS)
    IN  IF r1.status # "ok" THEN Aborted(c1, r1)
        ELSE IF r1.code # 0
             THEN Returned(c1, RepoResult(name, path, FALSE, None, None, None,
                                          None, None, None, None))
        ELSE IF r2.status # "ok" THEN Aborted(c2, r2)
        ELSE IF r2.code # 0
             THEN Returned(c2, RepoResult(name, path, TRUE, None, None, None,
                                          None, None, None, ErrOrNone(r2.err)))
        ELSE IF r3.status # "ok" THEN Aborted(c3, r3)
        ELSE IF r3.code # 0
             THEN Returned(c3, RepoResult(name, path, TRUE, Some(r2.out), None,
                                          None, None, None, None,
                                          ErrOrNone(r3.err)))
        ELSE CheckRepoRemote(env, path, name, r2.out, r3.out)

----------------------------------------------------------------------------
(* _render_lines *)

SetMax(S) == CHOOSE x \in S : \A y \in S : x >= y

\* Python truthiness of an Optional[str]
Truthy(opt) == opt # None /\ opt[1] # ""

\* _color: the text, wrapped in the colour code and the reset when use_color
Color(text, code, uc) ==
    [text |-> text, pre |-> IF uc THEN code ELSE "",
     post |-> IF uc THEN ANSI_RESET ELSE ""]

\* a text written without _color
Plain(text) == [text |-> text, pre |-> "", post |-> ""]

\* format_cell: the coloured text followed by the padding
FormatCell(raw, colored, width) ==
    [colored |-> colored, pad |-> Max2(0, width - Len(raw))]

\* the "ahead N" / "behind M" parts of a sync label
SyncParts(ahead, behind) ==
    (IF ahead > 0 THEN <<"ahead " \o ToString(ahead)>> ELSE <<>>)
    \o (IF behind > 0 THEN <<"behind " \o ToString(behind)>> ELSE <<>>)

\* ", ".join(parts)
JoinParts(parts) ==
    IF Len(parts) = 0 THEN ""
    ELSE IF Len(parts) = 1 THEN parts[1]
    ELSE parts[1] \o ", " \o parts[2]

\* counts tested for truth, so that a count of 0 reads as a missing count
HasCountsTruthy(r, sr) ==
    /\ sr /\ Truthy(r.upstream_ref)
    /\ r.ahead_count # None /\ r.ahead_count # Some(0)
    /\ r.behind_count # None /\ r.behind_count # Some(0)

\* line 457: result.upstream_ref and ahead is not None and behind is not None
HasCounts(r, sr) ==
    sr /\ Truthy(r.upstream_ref) /\ r.ahead_count # None /\ r.behind_count # None

\* widths in which the name column is sized by the resolved entries only
ColumnWidthsResolvedNames(names, res, sr) ==
    LET repos == {i \in 1..Len(res) : res[i] # None /\ res[i][1].is_repo}
        syncLabel(r) ==
            LET parts == SyncParts(r.ahead_count[1], r.behind_count[1])
            IN  IF Len(parts) > 0 THEN JoinParts(parts) ELSE LABEL_IN_SYNC
    IN  [name |-> SetMax({0} \cup {Len(names[i]) :
                                      i \in {j \in 1..Len(res) : res[j] # None}}),
         branch |-> SetMax({Len(LABEL_DETACHED), Len(LABEL_UNKNOWN)}
                      \cup {Len(res[i][1].branch[1]) :
                              i \in {j \in repos : Truthy(res[j][1].branch)}}),
         clean |-> SetMax({Len(LABEL_CLEAN), Len(LABEL_DIRTY), Len(LABEL_UNKNOWN),
                           Len(LABEL_NOT_INIT), Len(LABEL_PENDING)}),
         remote |-> SetMax({Len(LABEL_ORIGIN), Len(LABEL_NO_REMOTE)}),
         sync |-> SetMax({Len(LABEL_IN_SYNC), Len(LABEL_NO_UPSTREAM), Len(LABEL_ERROR)}
                      \cup {Len(syncLabel(res[i][1])) :
                              i \in {j \in repos : HasCounts(res[j][1], sr)}})]

\* lines 362-380: the column widths of one call
ColumnWidths(names, res, sr) ==
    LET repos == {i \in 1..Len(res) : res[i] # None /\ res[i][1].is_repo}
        syncLabel(r) ==
            LET parts == SyncParts(r.ahead_count[1], r.behind_count[1])
            IN  IF Len(parts) > 0 THEN JoinParts(parts) ELSE LABEL_IN_SYNC
    IN  [name |-> SetMax({Len(names[i]) : i \in 1..Len(names)}),
         branch |-> SetMax({Len(LABEL_DETACHED), Len(LABEL_UNKNOWN)}
                      \cup {Len(res[i][1].branch[1]) :
                              i \in {j \in repos : Truthy(res[j][1].branch)}}),
         clean |-> SetMax({Len(LABEL_CLEAN), Len(LABEL_DIRTY), Len(LABEL_UNKNOWN),
                           Len(LABEL_NOT_INIT), Len(LABEL_PENDING)}),
         remote |-> SetMax({Len(LABEL_ORIGIN), Len(LABEL_NO_REMOTE)}),
         sync |-> SetMax({Len(LABEL_IN_SYNC), Len(LABEL_NO_UPSTREAM), Len(LABEL_ERROR)}
                      \cup {Len(syncLabel(res[i][1])) :
                              i \in {j \in repos : HasCounts(res[j][1], sr)}})]

\* lines 385-423: a row whose branch column holds a label and whose other
\* columns are empty (a pending slot, a folder that is not a repository)
LabelRow(name, label, code, w, uc, sr) ==
    <<FormatCell(name, Plain(name), w.name),
      FormatCell(label, Color(label, code, uc), w.branch),
      FormatCell("", Plain(""), w.clean)>>
    \o (IF sr THEN <<FormatCell("", Plain(""), w.remote),
                     FormatCell("", Plain(""), w.sync)>>
        ELSE <<>>)

\* lines 425-431
BranchCell(r, uc) ==
    LET branch == IF Truthy(r.branch) THEN r.branch[1] ELSE LABEL_UNKNOWN
        branch_raw == IF branch = "HEAD" THEN LABEL_DETACHED ELSE branch
    IN  [raw |-> branch_raw, colored |-> Color(branch_raw, ANSI_BLUE, uc)]

\* lines 433-441
CleanCell(r, uc) ==
    IF r.is_clean = Some(TRUE)
    THEN [raw |-> LABEL_CLEAN, colored |-> Color(LABEL_CLEAN, ANSI_GREEN, uc)]
    ELSE IF r.is_clean = Some(FALSE)
    THEN [raw |-> LABEL_DIRTY, colored |-> Color(LABEL_DIRTY, ANSI_RED, uc)]
    ELSE [raw |-> LABEL_UNKNOWN, colored |-> Color(LABEL_UNKNOWN, ANSI_YELLOW, uc)]

\* lines 443-453
RemoteCell(r, uc, sr) ==
    IF ~sr THEN [raw |-> "", colored |-> Plain("")]
    ELSE IF Truthy(r.origin_url)
    THEN [raw |-> LABEL_ORIGIN, colored |-> Color(LABEL_ORIGIN, ANSI_CYAN, uc)]
    ELSE [raw |-> LABEL_NO_REMOTE, colored |-> Color(LABEL_NO_REMOTE, ANSI_RED, uc)]

\* lines 445-474
SyncCell(r, uc, sr) ==
    LET shown ==
          IF ~sr THEN [raw |-> "", colored |-> Plain("")]
          ELSE IF HasCounts(r, sr)
          THEN LET ahead == r.ahead_count[1]
                   behind == r.behind_count[1]
                   parts == SyncParts(ahead, behind)
                   label == IF Len(parts) > 0 THEN JoinParts(parts) ELSE "out-of-sync"
               IN  IF behind = 0 /\ ahead = 0
                   THEN [raw |-> LABEL_IN_SYNC,
                         colored |-> Color(LABEL_IN_SYNC, ANSI_GREEN, uc)]
                   ELSE [raw |-> label,
                         colored |-> Color(label, IF behind > 0 THEN ANSI_RED
                                                  ELSE ANSI_YELLOW, uc)]
          ELSE [raw |-> LABEL_NO_UPSTREAM,
                colored |-> Color(LABEL_NO_UPSTREAM, ANSI_YELLOW, uc)]
    IN  IF Truthy(r.error)
        THEN [raw |-> LABEL_ERROR, colored |-> Color(LABEL_ERROR, ANSI_RED, uc)]
        ELSE shown

\* lines 425-491: the row of a resolved repository
RepoRow(name, r, w, uc, sr) ==
    <<FormatCell(name, Plain(name), w.name),
      FormatCell(BranchCell(r, uc).raw, BranchCell(r, uc).colored, w.branch),
      FormatCell(CleanCell(r, uc).raw, CleanCell(r, uc).colored, w.clean)>>
    \o (IF sr THEN <<FormatCell(RemoteCell(r, uc, sr).raw,
                                RemoteCell(r, uc, sr).colored, w.remote),
                     FormatCell(SyncCell(r, uc, sr).raw,
                                SyncCell(r, uc, sr).colored, w.sync)>>
        ELSE <<>>)

\* rows that read the slots from the last to the first
RenderRowReversed(names, res, idx, w, uc, sr) ==
    LET slot == res[Len(res) + 1 - idx] IN
    IF slot = None
    THEN LabelRow(names[idx], LABEL_PENDING, ANSI_DIM, w, uc, sr)
    ELSE IF ~slot[1].is_repo
    THEN LabelRow(names[idx], LABEL_NOT_INIT, ANSI_YELLOW, w, uc, sr)
    ELSE RepoRow(names[idx], slot[1], w, uc, sr)

\* lines 382-493: one line per name, each a sequence of cells
RenderRow(names, res, idx, w, uc, sr) ==
    IF res[idx] = None
    THEN LabelRow(names[idx], LABEL_PENDING, ANSI_DIM, w, uc, sr)
    ELSE IF ~res[idx][1].is_repo
    THEN LabelRow(names[idx], LABEL_NOT_INIT, ANSI_YELLOW, w, uc, sr)
    ELSE RepoRow(names[idx], res[idx][1], w, uc, sr)

\* a rendering that leaves out the rows of the unresolved slots
RenderLinesResolvedOnly(names, res, uc, sr) ==
    SelectSeq([idx \in 1..Len(names) |->
                  RenderRow(names, res, idx, ColumnWidths(names, res, sr), uc, sr)],
              LAMBDA row : row[2].colored.text # LABEL_PENDING)

\* the widths are computed once per call, then every row is formatted
RenderLines(names, res, uc, sr) ==
    CHOOSE lines \in {[idx \in 1..Len(names) |-> RenderRow(names, res, idx, w, uc, sr)] :
                         w \in {ColumnWidths(names, res, sr)}} : TRUE

----------------------------------------------------------------------------
(* sys.stdout *)

\* _clear_lines: cursor up, one erase-line and newline per line, cursor up
CursorUp(n) == [esc |-> "A", n |-> n]
EraseLine == [esc |-> "2K", n |-> 0]

\* an erase that stops one line short
ClearLinesShort(line_count) ==
    IF line_count <= 0 THEN <<>>
    ELSE <<[call |-> "_clear_lines",
            writes |-> <<CursorUp(line_count)>>
                       \o [k \in 1..(line_count - 1) |-> EraseLine]
                       \o <<CursorUp(line_count)>>]>>

ClearLines(line_count) ==
    IF line_count <= 0 THEN <<>>
    ELSE <<[call |-> "_clear_lines",
            writes |-> <<CursorUp(line_count)>>
                       \o [k \in 1..line_count |-> EraseLine]
                       \o <<CursorUp(line_count)>>]>>

\* _print_block: every line followed by a newline
PrintBlock(lines) == <<[call |-> "_print_block", writes |-> lines]>>

----------------------------------------------------------------------------
(* The folders of the modelled scan and what git answers in each *)

GitReplies(wt, br, st, org, up, cnt) ==
    [kind |-> "git", script |-> <<>>,
     git |-> (GIT_WORK_TREE :> wt @@ GIT_BRANCH :> br @@ GIT_STATUS :> st
              @@ GIT_ORIGIN :> org @@ GIT_UPSTREAM :> up @@ GIT_COUNT :> cnt)]

ScriptEnv(calls) == [kind |-> "script", script |-> calls, git |-> <<>>]
NoEnv == ScriptEnv(<<>>)

NoReply == Reply(128, "", "fatal")
NoCount == Reply(128, <<>>, "fatal")

Folders ==
    {<<"docs", "/work/docs">>, <<"api", "/work/api">>, <<"web", "/work/web">>,
     <<"lib", "/work/lib">>, <<"tmp", "/work/tmp">>, <<"nfs", "/work/nfs">>}

GitOf(path) ==
    CASE path = "/work/docs" ->   \* a plain folder
           GitReplies(Reply(128, "", "fatal: not a git repository"),
                      NoReply, NoReply, NoReply, NoReply, NoCount)
      [] path = "/work/api" ->    \* clean, in sync with origin/main
           GitReplies(Reply(0, "true", ""), Reply(0, "main", ""), Reply(0, "", ""),
                      Reply(0, "git@example.com:org/api.git", ""),
                      Reply(0, "origin/main", ""),
                      Reply(0, <<"0", " ", "0">>, ""))
      [] path = "/work/web" ->    \* long branch name, dirty, diverged
           GitReplies(Reply(0, "true", ""), Reply(0, "feature/scan-cache", ""),
                      Reply(0, "M cli.py", ""), Reply(2, "", "error: No such remote"),
                      Reply(0, "fork/feature/scan-cache", ""),
                      Reply(0, <<"1", "2", " ", "3">>, ""))
      [] path = "/work/lib" ->    \* a repository whose HEAD cannot be read
           GitReplies(Reply(0, "true", ""),
                      Reply(128, "", "fatal: ambiguous argument 'HEAD'"),
                      NoReply, NoReply, NoReply, NoCount)
      [] path = "/work/tmp" ->    \* subprocess.run raises while reading the status
           GitReplies(Reply(0, "true", ""), Reply(0, "main", ""),
                      Raises("UnicodeDecodeError"), NoReply, NoReply, NoCount)
      [] path = "/work/nfs" ->    \* git never answers
           GitReplies(Hangs, NoReply, NoReply, NoReply, NoReply, NoCount)

IsInjective(f) == \A a, b \in DOMAIN f : f[a] = f[b] => a = b

EntryLists ==
    {l \in UNION {[1..n -> Folders] : n \in 1..MaxEntries} : IsInjective(l)}

----------------------------------------------------------------------------
(* _run_checks *)

N == Len(names_and_paths)
names == [i \in 1..N |-> names_and_paths[i][1]]
\* live redraw whatever the output destination
allow_dynamic_always == TRUE
allow_dynamic == use_color

\* what _check_repo(path, name) does in each folder
ProbeTable == [e \in Folders |-> CheckRepo(GitOf(e[2]), e[2], e[1])]

\* loop.run_in_executor(None, _check_repo, path, name) for entry idx
ProbeOf(idx) == ProbeTable[names_and_paths[idx]]

NoProbeRun == [kind |-> "none", calls |-> <<>>, result |-> NoResult]

\* no pure function is under test
PureIdle ==
    /\ ref_text = <<>>
    /\ ref_remote = <<>>
    /\ scan_args = <<>>
    /\ scan_lists = <<>>
    /\ cli_input = <<>>

Init ==
    /\ names_and_paths \in EntryLists
    /\ max_workers \in 1..MaxWorkers
    /\ use_color \in BOOLEAN
    /\ rcpc = "start"
    /\ results = <<>>
    /\ sem_value = 0
    /\ sem_waiters = <<>>
    /\ taskpc = <<>>
    /\ probe = <<>>
    /\ stdout = <<>>
    /\ git_env = NoEnv
    /\ probe_run = NoProbeRun
    /\ PureIdle

\* a gate that looks at the waiters only and never at the permits left
SemLockedIgnoresValue(value, waiters) == waiters # <<>>

\* asyncio.Semaphore.locked(): no permit left, or a task already waiting
SemLocked(value, waiters) == value = 0 \/ waiters # <<>>

\* a release that returns the permit without waking the first waiter
SemReleaseNoWake(value, waiters) ==
    [value |-> value + 1, waiters |-> waiters, woken |-> {}]

\* asyncio.Semaphore.release(): the permit goes to the first waiter if any
SemRelease(value, waiters) ==
    IF waiters # <<>>
    THEN [value |-> value, waiters |-> Tail(waiters), woken |-> {Head(waiters)}]
    ELSE [value |-> value + 1, waiters |-> waiters, woken |-> {}]

\* lines 518-536: up to the await of gather
RunChecksStart ==
    /\ rcpc = "start"
    /\ rcpc' = "gather"
    /\ results' = [i \in 1..N |-> None]
    /\ sem_value' = max_workers
    /\ sem_waiters' = <<>>
    /\ taskpc' = [i \in 1..N |-> "created"]
    /\ probe' = [i \in 1..N |-> "idle"]
    /\ stdout' = IF allow_dynamic
                 THEN stdout \o PrintBlock(RenderLines(names, results', use_color,
                                                       show_remote))
                 ELSE stdout
    /\ UNCHANGED <<names_and_paths, max_workers, use_color, git_env, probe_run, pureVars>>

\* The event loop runs its callbacks in the order they were scheduled: the
\* first step of every task, scheduled by gather, runs before the callback of
\* any probe that completes
AllStarted == \A j \in 1..N : taskpc[j] # "created"

\* run_one up to its first await: enter the semaphore and hand the probe to
\* the executor, or wait for a permit.  Tasks start in the order of gather.
TaskStart(idx) ==
    /\ rcpc = "gather"
    /\ idx \in 1..N
    /\ taskpc[idx] = "created"
    /\ \A j \in 1..(idx - 1) : taskpc[j] # "created"
    /\ IF SemLocked(sem_value, sem_waiters)
       THEN /\ sem_waiters' = Append(sem_waiters, idx)
            /\ taskpc' = [taskpc EXCEPT ![idx] = "waiting"]
            /\ UNCHANGED <<sem_value, probe>>
       ELSE /\ sem_value' = sem_value - 1
            /\ taskpc' = [taskpc EXCEPT ![idx] = "probing"]
            /\ probe' = [probe EXCEPT ![idx] = "running"]
            /\ UNCHANGED sem_waiters
    /\ UNCHANGED <<names_and_paths, max_workers, use_color, rcpc, results,
                   stdout, git_env, probe_run, pureVars>>

\* run_one resumed with the permit of a release: hand the probe to the executor
TaskAdmit(idx) ==
    /\ rcpc = "gather"
    /\ idx \in 1..N
    /\ taskpc[idx] = "woken"
    /\ AllStarted
    /\ taskpc' = [taskpc EXCEPT ![idx] = "probing"]
    /\ probe' = [probe EXCEPT ![idx] = "running"]
    /\ UNCHANGED <<names_and_paths, max_workers, use_color, rcpc, results,
                   sem_value, sem_waiters, stdout, git_env, probe_run, pureVars>>

\* the executor thread: _check_repo returns or raises (a hung one does neither)
ProbeFinish(idx) ==
    /\ idx \in 1..Len(probe)
    /\ probe[idx] = "running"
    /\ ProbeOf(idx).kind \in {"returned", "raised"}
    /\ probe' = [probe EXCEPT ![idx] = ProbeOf(idx).kind]
    /\ UNCHANGED <<names_and_paths, max_workers, use_color, rcpc, results,
                   sem_value, sem_waiters, taskpc, stdout, git_env, probe_run, pureVars>>

\* a release whose waiter is never resumed
WakeLost(pcs, woken) == pcs

\* the tasks that a release wakes
Wake(pcs, woken) ==
    [i \in DOMAIN pcs |-> IF i \in woken THEN "woken" ELSE pcs[i]]

\* a completion that redraws the table before it writes its slot
TaskCompleteRedrawFirst(idx) ==
    /\ rcpc = "gather"
    /\ idx \in 1..N
    /\ taskpc[idx] = "probing"
    /\ probe[idx] = "returned"
    /\ AllStarted
    /\ LET rel == SemRelease(sem_value, sem_waiters) IN
         /\ sem_value' = rel.value
         /\ sem_waiters' = rel.waiters
         /\ taskpc' = [Wake(taskpc, rel.woken) EXCEPT ![idx] = "done"]
    /\ results' = [results EXCEPT ![idx] = Some(ProbeOf(idx).result)]
    /\ stdout' = IF allow_dynamic
                 THEN stdout \o ClearLines(Len(names))
                      \o PrintBlock(RenderLines(names, results, use_color,
                                                show_remote))
                 ELSE stdout
    /\ UNCHANGED <<names_and_paths, max_workers, use_color, rcpc, probe,
                   git_env, probe_run, pureVars>>

\* a completion that stores its result in the slot of the next entry
TaskCompleteNextSlot(idx) ==
    /\ rcpc = "gather"
    /\ idx \in 1..N
    /\ taskpc[idx] = "probing"
    /\ probe[idx] = "returned"
    /\ AllStarted
    /\ LET rel == SemRelease(sem_value, sem_waiters) IN
         /\ sem_value' = rel.value
         /\ sem_waiters' = rel.waiters
         /\ taskpc' = [Wake(taskpc, rel.woken) EXCEPT ![idx] = "done"]
    /\ results' = [results EXCEPT ![(idx % N) + 1] = Some(ProbeOf(idx).result)]
    /\ stdout' = IF allow_dynamic
                 THEN stdout \o ClearLines(Len(names))
                      \o PrintBlock(RenderLines(names, results', use_color,
                                                show_remote))
                 ELSE stdout
    /\ UNCHANGED <<names_and_paths, max_workers, use_color, rcpc, probe,
                   git_env, probe_run, pureVars>>

\* lines 525-530: run_one resumed with the result of its probe
TaskComplete(idx) ==
    /\ rcpc = "gather"
    /\ idx \in 1..N
    /\ taskpc[idx] = "probing"
    /\ probe[idx] = "returned"
    /\ AllStarted
    /\ LET rel == SemRelease(sem_value, sem_waiters) IN
         /\ sem_value' = rel.value
         /\ sem_waiters' = rel.waiters
         /\ taskpc' = [Wake(taskpc, rel.woken) EXCEPT ![idx] = "done"]
    /\ results' = [results EXCEPT ![idx] = Some(ProbeOf(idx).result)]
    /\ stdout' = IF allow_dynamic
                 THEN stdout \o ClearLines(Len(names))
                      \o PrintBlock(RenderLines(names, results', use_color,
                                                show_remote))
                 ELSE stdout
    /\ UNCHANGED <<names_and_paths, max_workers, use_color, rcpc, probe,
                   git_env, probe_run, pureVars>>

\* lines 525-526: the await raises; the semaphore is left, the task fails
TaskFail(idx) ==
    /\ rcpc = "gather"
    /\ idx \in 1..N
    /\ taskpc[idx] = "probing"
    /\ probe[idx] = "raised"
    /\ AllStarted
    /\ LET rel == SemRelease(sem_value, sem_waiters) IN
         /\ sem_value' = rel.value
         /\ sem_waiters' = rel.waiters
         /\ taskpc' = [Wake(taskpc, rel.woken) EXCEPT ![idx] = "failed"]
    /\ UNCHANGED <<names_and_paths, max_workers, use_color, rcpc, results,
                   probe, stdout, git_env, probe_run, pureVars>>

\* lines 536-539: gather resolves when every task is done
GatherReturn ==
    /\ rcpc = "gather"
    /\ \A i \in 1..N : taskpc[i] = "done"
    /\ rcpc' = "returned"
    /\ stdout' = IF ~allow_dynamic
                 THEN stdout \o PrintBlock(RenderLines(names, results, use_color,
                                                       show_remote))
                 ELSE stdout
    /\ UNCHANGED <<names_and_paths, max_workers, use_color, results, sem_value,
                   sem_waiters, taskpc, probe, git_env, probe_run, pureVars>>

\* line 536 and main 597-608: gather re-raises the first exception of a task,
\* _run_checks ends with it, and asyncio.run cancels the tasks still pending.
\* The wake-up of a task admitted by the failing task's release was scheduled
\* before the callback of gather, so it has run by then.
GatherRaise ==
    /\ rcpc = "gather"
    /\ \E i \in 1..N : taskpc[i] = "failed"
    /\ \A i \in 1..N : taskpc[i] \notin {"created", "woken"}
    /\ rcpc' = "raised"
    /\ taskpc' = [i \in 1..N |-> IF taskpc[i] \in {"done", "failed"}
                                 THEN taskpc[i] ELSE "cancelled"]
    /\ UNCHANGED <<names_and_paths, max_workers, use_color, results, sem_value,
                   sem_waiters, probe, stdout, git_env, probe_run, pureVars>>

Next ==
    \/ RunChecksStart
    \/ \E idx \in 1..MaxEntries : TaskStart(idx)
    \/ \E idx \in 1..MaxEntries : TaskAdmit(idx)
    \/ \E idx \in 1..MaxEntries : ProbeFinish(idx)
    \/ \E idx \in 1..MaxEntries : TaskComplete(idx)
    \/ \E idx \in 1..MaxEntries : TaskFail(idx)
    \/ GatherReturn
    \/ GatherRaise

Spec == Init /\ [][Next]_vars

\* the event loop runs every callback that is ready and every executor
\* thread runs its probe
LiveSpec == Spec /\ WF_vars(Next)

----------------------------------------------------------------------------
(* _check_repo against the scripted _run_git of test_cli_sync_status.py *)

\* the replies a script may give to each query
WorkTreeReplies == {Reply(0, "true", ""), Reply(128, "", "fatal: not a git repository")}
BranchReplies == {Reply(0, "main", ""), Reply(128, "", "fatal: bad HEAD")}
StatusReplies == {Reply(0, "", ""), Reply(0, "M cli.py", "")}
OriginReplies == {Reply(0, "git@example.com:org/repo.git", ""), Reply(2, "", "")}
UpstreamReplies == {Reply(0, "origin/main", ""), Reply(128, "", "fatal: no upstream")}
FetchReplies == {Reply(0, "", ""), Reply(128, "", "offline")}
CountReplies == {Reply(0, <<"3", " ", "1">>, ""), Reply(0, <<"0", " ", "2">>, ""),
                 Reply(128, <<>>, "fatal")}

\* lines 31-42 and 54-65 of the tests: the seven expected calls, and the
\* same script without the fetch
Scripts ==
    {<<<<GIT_WORK_TREE, wt>>, <<GIT_BRANCH, br>>, <<GIT_STATUS, st>>,
       <<GIT_ORIGIN, org>>, <<GIT_UPSTREAM, up>>, <<GIT_FETCH_ORIGIN, fe>>,
       <<GIT_COUNT, cnt>>>> :
        wt \in WorkTreeReplies, br \in BranchReplies, st \in StatusReplies,
        org \in OriginReplies, up \in UpstreamReplies, fe \in FetchReplies,
        cnt \in CountReplies}
    \cup
    {<<<<GIT_WORK_TREE, wt>>, <<GIT_BRANCH, br>>, <<GIT_STATUS, st>>,
       <<GIT_ORIGIN, org>>, <<GIT_UPSTREAM, up>>, <<GIT_COUNT, cnt>>>> :
        wt \in WorkTreeReplies, br \in BranchReplies, st \in StatusReplies,
        org \in OriginReplies, up \in UpstreamReplies, cnt \in CountReplies}

ProbeInit ==
    /\ git_env \in {ScriptEnv(sc) : sc \in Scripts}
    /\ probe_run = NoProbeRun
    /\ names_and_paths = <<<<"repo", "/tmp/repo">>>>
    /\ max_workers = 1
    /\ use_color = FALSE
    /\ rcpc = "test"
    /\ results = <<>>
    /\ sem_value = 0
    /\ sem_waiters = <<>>
    /\ taskpc = <<>>
    /\ probe = <<>>
    /\ stdout = <<>>
    /\ PureIdle

\* result = cli._check_repo("/tmp/repo", "repo")
RunProbe ==
    /\ rcpc = "test"
    /\ probe_run = NoProbeRun
    /\ probe_run' = CheckRepo(git_env, names_and_paths[1][2], names_and_paths[1][1])
    /\ UNCHANGED <<names_and_paths, max_workers, use_color, rcpc, results,
                   sem_value, sem_waiters, taskpc, probe, stdout, git_env,
                   pureVars>>

ProbeNext == RunProbe

ProbeSpec == ProbeInit /\ [][ProbeNext]_vars

----------------------------------------------------------------------------
(* _check_repo against git, and the table row of its result *)

\* what git may answer to each query of the probe
GitWorkTreeAnswers == {Reply(0, "true", ""), Reply(128, "", "fatal: not a git repository")}
GitBranchAnswers ==
    {Reply(0, "main", ""), Reply(0, "HEAD", ""),
     Reply(128, "", "fatal: ambiguous argument 'HEAD'"), Reply(128, "", "")}
GitStatusAnswers ==
    {Reply(0, "", ""), Reply(0, "M cli.py", ""), Reply(128, "", "fatal: index file corrupt")}
GitOriginAnswers ==
    {Reply(0, "git@example.com:org/repo.git", ""), Reply(2, "", "error: No such remote 'origin'")}
GitUpstreamAnswers ==
    {Reply(0, "origin/main", ""), Reply(128, "", "fatal: no upstream configured")}
GitCountAnswers ==
    {Reply(0, <<"0", " ", "0">>, ""), Reply(0, <<"3", " ", "1">>, ""),
     Reply(0, <<"0", " ", "2">>, ""), Reply(0, <<"4", " ", "0">>, ""),
     Reply(0, <<"?">>, ""), Reply(128, <<>>, "fatal: bad revision")}

GitEnvs ==
    {GitReplies(wt, br, st, org, up, cnt) :
        wt \in GitWorkTreeAnswers, br \in GitBranchAnswers, st \in GitStatusAnswers,
        org \in GitOriginAnswers, up \in GitUpstreamAnswers, cnt \in GitCountAnswers}

RenderInit ==
    /\ git_env \in GitEnvs
    /\ probe_run = NoProbeRun
    /\ names_and_paths = <<<<"repo", "/tmp/repo">>>>
    /\ max_workers = 1
    /\ use_color \in BOOLEAN
    /\ rcpc = "test"
    /\ results = <<>>
    /\ sem_value = 0
    /\ sem_waiters = <<>>
    /\ taskpc = <<>>
    /\ probe = <<>>
    /\ stdout = <<>>
    /\ PureIdle

\* lines 537-538: the table of the one result, rendered and printed
RenderResult ==
    /\ rcpc = "test"
    /\ probe_run.kind = "returned"
    /\ stdout = <<>>
    /\ stdout' = PrintBlock(RenderLines(<<names_and_paths[1][1]>>,
                                        <<Some(probe_run.result)>>,
                                        use_color, show_remote))
    /\ UNCHANGED <<names_and_paths, max_workers, use_color, rcpc, results,
                   sem_value, sem_waiters, taskpc, probe, git_env, probe_run,
                   pureVars>>

RenderNext == RunProbe \/ RenderResult

RenderSpec == RenderInit /\ [][RenderNext]_vars

----------------------------------------------------------------------------
(* The remote of an upstream ref (the refresh step of the probe) *)

\* neither the scheduler nor a probe is running
SchedIdle ==
    /\ names_and_paths = <<>>
    /\ max_workers = 1
    /\ use_color = FALSE
    /\ rcpc = "idle"
    /\ results = <<>>
    /\ sem_value = 0
    /\ sem_waiters = <<>>
    /\ taskpc = <<>>
    /\ probe = <<>>
    /\ stdout = <<>>
    /\ git_env = NoEnv
    /\ probe_run = NoProbeRun

\* position of the first "/" of a ref, 0 when it has none
FirstSlash(ref) ==
    IF \E k \in 1..Len(ref) : ref[k] = "/"
    THEN CHOOSE k \in 1..Len(ref) : ref[k] = "/" /\ \A j \in 1..(k - 1) : ref[j] # "/"
    ELSE 0

\* the text before the last "/" of the ref
UpstreamRemoteNameLastSlash(ref) ==
    IF FirstSlash(ref) = 0 THEN None
    ELSE Some(SubSeq(ref, 1,
                     (CHOOSE k \in 1..Len(ref) :
                         ref[k] = "/" /\ \A j \in (k + 1)..Len(ref) : ref[j] # "/") - 1))

\* _upstream_remote_name(upstream_ref): the text before the first "/" of the
\* ref, None for a ref without "/"
UpstreamRemoteName(ref) ==
    IF FirstSlash(ref) = 0 THEN None
    ELSE Some(SubSeq(ref, 1, FirstSlash(ref) - 1))

RefChars == {"o", "m", "/"}

\* the refs of the tests
REF_ORIGIN_MAIN == <<"o", "r", "i", "g", "i", "n", "/", "m", "a", "i", "n">>
REF_UPSTREAM_FEATURE_FOO ==
    <<"u", "p", "s", "t", "r", "e", "a", "m", "/", "f", "e", "a", "t", "u", "r", "e",
      "/", "f", "o", "o">>
REF_MAIN == <<"m", "a", "i", "n">>

Refs ==
    {REF_ORIGIN_MAIN, REF_UPSTREAM_FEATURE_FOO, REF_MAIN}
        \cup UNION {[1..n -> RefChars] : n \in 1..MaxRefLen}

RemoteInit ==
    /\ ref_text \in Refs
    /\ ref_remote = <<>>
    /\ scan_args = <<>>
    /\ scan_lists = <<>>
    /\ cli_input = <<>>
    /\ SchedIdle

\* cli._upstream_remote_name(ref_text)
ExtractRemote ==
    /\ ref_text # <<>>
    /\ ref_remote = <<>>
    /\ ref_remote' = <<UpstreamRemoteName(ref_text)>>
    /\ UNCHANGED <<names_and_paths, max_workers, use_color, rcpc, results,
                   sem_value, sem_waiters, taskpc, probe, stdout, git_env,
                   probe_run, ref_text, scan_args, scan_lists, cli_input>>

RemoteNext == ExtractRemote

RemoteSpec == RemoteInit /\ [][RemoteNext]_vars

IsPrefixOf(a, b) == Len(a) <= Len(b) /\ SubSeq(b, 1, Len(a)) = a

----------------------------------------------------------------------------
(* _build_scan_list: the enumeration of the folders to probe *)
(*                                                                         *)
(* A name is a sequence of characters, a path the sequence of the names    *)
(* from the root directory down (os.sep between them), a directory tree a  *)
(* set of nodes [path, kind] with kind "dir", "file" or "link" (a symbolic *)
(* link to a directory).  An entry of the scan list is <<display, path>>.  *)

\* ord() of the characters that occur in the modelled names
Ord(c) ==
    CASE c = " " -> 32 [] c = "+" -> 43 [] c = "-" -> 45 [] c = "." -> 46
      [] c = "F" -> 70 [] c = "Y" -> 89 [] c = "Z" -> 90
      [] c = "a" -> 97 [] c = "b" -> 98 [] c = "d" -> 100 [] c = "e" -> 101
      [] c = "f" -> 102 [] c = "h" -> 104 [] c = "i" -> 105 [] c = "k" -> 107
      [] c = "l" -> 108 [] c = "n" -> 110 [] c = "o" -> 111 [] c = "p" -> 112
      [] c = "r" -> 114 [] c = "s" -> 115 [] c = "t" -> 116 [] c = "w" -> 119
      [] c = "x" -> 120 [] c = "y" -> 121 [] c = "z" -> 122

\* str.lower()
LowerChar(c) ==
    CASE c = "F" -> "f" [] c = "Y" -> "y" [] c = "Z" -> "z" [] OTHER -> c
Lower(text) == [k \in 1..Len(text) |-> LowerChar(text[k])]

\* a < b on str: by code point, a proper prefix first
RECURSIVE StrLess(_, _)
StrLess(a, b) ==
    IF b = <<>> THEN FALSE
    ELSE IF a = <<>> THEN TRUE
    ELSE IF Ord(Head(a)) # Ord(Head(b)) THEN Ord(Head(a)) < Ord(Head(b))
    ELSE StrLess(Tail(a), Tail(b))

\* the nesting marker of line 345, U+2514 U+2500 and a space, written "+- "
NEST_PREFIX == <<"+", "-", " ">>

DOT == <<".">>
DOTDOT == <<".", ".">>

\* os.path.normpath / os.path.abspath of an absolute path
RECURSIVE NormPath(_)
NormPath(parts) ==
    IF parts = <<>> THEN <<>>
    ELSE LET front == NormPath(SubSeq(parts, 1, Len(parts) - 1))
             last == parts[Len(parts)]
         IN  IF last = DOT THEN front
             ELSE IF last = DOTDOT
                  THEN (IF front = <<>> THEN <<>> ELSE SubSeq(front, 1, Len(front) - 1))
             ELSE Append(front, last)

\* an entry of the ignore file: an absolute path or one relative to the base
IgnoreEntry(is_abs, parts) == [is_abs |-> is_abs, parts |-> parts]

\* lines 155-164 (entries without "~")
ResolveIgnorePaths(base_path, entries) ==
    [k \in 1..Len(entries) |->
        IF entries[k].is_abs THEN NormPath(entries[k].parts)
        ELSE NormPath(base_path \o entries[k].parts)]

\* os.path.commonpath of two absolute paths: their longest common prefix
CommonPath(a, b) ==
    LET same == {n \in 0..Len(a) : n <= Len(b) /\ SubSeq(a, 1, n) = SubSeq(b, 1, n)}
    IN  SubSeq(a, 1, CHOOSE n \in same : \A m \in same : m <= n)

\* the text of a path: os.sep before every name
RECURSIVE PathText(_)
PathText(path) ==
    IF path = <<>> THEN <<>>
    ELSE PathText(SubSeq(path, 1, Len(path) - 1)) \o <<"/">> \o path[Len(path)]

\* a test on the text of the paths: path.startswith(ignored)
IsIgnoredByTextPrefix(path, ignored_paths) ==
    \E k \in 1..Len(ignored_paths) :
        /\ Len(PathText(ignored_paths[k])) <= Len(PathText(path))
        /\ SubSeq(PathText(path), 1, Len(PathText(ignored_paths[k])))
             = PathText(ignored_paths[k])

\* lines 167-178
IsIgnored(path, ignored_paths) ==
    \E k \in 1..Len(ignored_paths) :
        CommonPath(path, ignored_paths[k]) = ignored_paths[k]

\* the sort key that leaves the case of the name as it is
SortKeyCaseSensitive(item) == item[1]

\* line 297: key=lambda item: item[0].lower()
SortKey(item) == Lower(item[1])

\* list.sort(key=SortKey) is stable: an item goes behind the items whose key
\* is not greater than its own
InsertByKey(sorted, item) ==
    LET k == Cardinality({i \in 1..Len(sorted) :
                             ~StrLess(SortKey(item), SortKey(sorted[i]))})
    IN  SubSeq(sorted, 1, k) \o <<item>> \o SubSeq(sorted, k + 1, Len(sorted))

RECURSIVE SortEntries(_)
SortEntries(entries) ==
    IF entries = <<>> THEN <<>>
    ELSE InsertByKey(SortEntries(SubSeq(entries, 1, Len(entries) - 1)),
                     entries[Len(entries)])

\* entry.name of a directory entry
EntryName(node) == node.path[Len(node.path)]

\* lines 279-298; scandir[base_path] is the order in which os.scandir yields
\* the entries of base_path
ListSubfolders(base_path, include_hidden, ignored_paths, scandir) ==
    LET kept == SelectSeq(scandir[base_path],
                          LAMBDA entry :
                              /\ entry.kind = "dir"
                              /\ ~IsIgnored(entry.path, ignored_paths)
                              /\ (include_hidden \/ Head(EntryName(entry)) # "."))
    IN  SortEntries([k \in 1..Len(kept) |-> <<EntryName(kept[k]), kept[k].path>>])

\* lines 315-325
HasAncestor(path, candidates) ==
    \E other \in candidates : other # path /\ CommonPath(path, other) = other

\* lines 338-345: add_for_base, and its loop over the entries of one base
RECURSIVE AddForBase(_, _, _, _, _, _)
RECURSIVE AddEntries(_, _, _, _, _, _)
AddForBase(base_path, prefix, target_set, include_hidden, ignore_entries, scandir) ==
    AddEntries(ListSubfolders(base_path, include_hidden,
                              ResolveIgnorePaths(base_path, ignore_entries), scandir),
               prefix, target_set, include_hidden, ignore_entries, scandir)

AddEntries(entries, prefix, target_set, include_hidden, ignore_entries, scandir) ==
    IF entries = <<>> THEN <<>>
    ELSE <<<<prefix \o entries[1][1], entries[1][2]>>>>
         \o (IF entries[1][2] \in target_set
             THEN AddForBase(entries[1][2], prefix \o NEST_PREFIX, target_set,
                             include_hidden, ignore_entries, scandir)
             ELSE <<>>)
         \o AddEntries(Tail(entries), prefix, target_set, include_hidden,
                       ignore_entries, scandir)

\* lines 347-348: the loop over root_targets
RECURSIVE AddForRoots(_, _, _, _, _)
AddForRoots(roots, target_set, include_hidden, ignore_entries, scandir) ==
    IF roots = <<>> THEN <<>>
    ELSE AddForBase(Head(roots), <<>>, target_set, include_hidden, ignore_entries,
                    scandir)
         \o AddForRoots(Tail(roots), target_set, include_hidden, ignore_entries,
                        scandir)

\* lines 333-336
RootTargets(target_paths) ==
    LET target_set == {target_paths[k] : k \in 1..Len(target_paths)}
    IN  SelectSeq(target_paths, LAMBDA path : ~HasAncestor(path, target_set))

\* lines 328-349
BuildScanList(target_paths, include_hidden, ignore_entries, scandir) ==
    AddForRoots(RootTargets(target_paths),
                {target_paths[k] : k \in 1..Len(target_paths)},
                include_hidden, ignore_entries, scandir)

\* The directory trees of the model
Node(path, kind) == [path |-> path, kind |-> kind]

NAME_FOO == <<"f", "o", "o">>
NAME_FOO_UPPER == <<"F", "o", "o">>
NAME_FOO_BAR == <<"f", "o", "o", "-", "b", "a", "r">>
NAME_ZED == <<"Z", "e", "d">>
NAME_HID == <<".", "h", "i", "d">>
NAME_NOTES == <<"n", "o", "t", "e", "s">>
NAME_LNK == <<"l", "n", "k">>
NAME_X == <<"x">>
NAME_Y == <<"Y">>
NAME_DEEP == <<"d", "e", "e", "p">>
NAME_IN == <<"i", "n">>

\* /w, the directory that holds the folders
WORK == <<<<"w">>>>

\* what /w may hold: five directories, a file and a link to a directory
TopNodes ==
    {Node(Append(WORK, NAME_FOO), "dir"), Node(Append(WORK, NAME_FOO_UPPER), "dir"),
     Node(Append(WORK, NAME_FOO_BAR), "dir"), Node(Append(WORK, NAME_ZED), "dir"),
     Node(Append(WORK, NAME_HID), "dir"), Node(Append(WORK, NAME_NOTES), "file"),
     Node(Append(WORK, NAME_LNK), "link")}

\* what lies below a node of /w
Below(node) ==
    IF node.path = Append(WORK, NAME_FOO)
    THEN {Node(WORK \o <<NAME_FOO, NAME_X>>, "dir"),
          Node(WORK \o <<NAME_FOO, NAME_Y>>, "dir"),
          Node(WORK \o <<NAME_FOO, NAME_X, NAME_DEEP>>, "dir")}
    ELSE IF node.path = Append(WORK, NAME_HID)
    THEN {Node(WORK \o <<NAME_HID, NAME_IN>>, "dir")}
    ELSE {}

Trees ==
    {{Node(WORK, "dir")} \cup top \cup UNION {Below(node) : node \in top} :
        top \in {t \in SUBSET TopNodes : Cardinality(t) \in 1..MaxChildren}}

\* the --path arguments after _normalize_paths
TargetLists ==
    {<<WORK>>,
     <<WORK, Append(WORK, NAME_FOO)>>,
     <<Append(WORK, NAME_FOO), WORK>>,
     <<WORK, Append(WORK, NAME_FOO), WORK \o <<NAME_FOO, NAME_X>>>>,
     <<WORK, WORK \o <<NAME_FOO, NAME_X>>>>,
     <<WORK, Append(WORK, NAME_HID)>>,
     <<Append(WORK, NAME_FOO)>>,
     <<WORK \o <<NAME_FOO, NAME_X>>, Append(WORK, NAME_HID)>>}

\* the lines of the ignore file
IgnoreLists ==
    {<<>>,
     <<IgnoreEntry(FALSE, <<NAME_FOO>>)>>,
     <<IgnoreEntry(TRUE, WORK \o <<NAME_FOO, NAME_X>>)>>,
     <<IgnoreEntry(TRUE, WORK)>>,
     <<IgnoreEntry(FALSE, <<NAME_X>>), IgnoreEntry(FALSE, <<NAME_HID>>)>>,
     <<IgnoreEntry(FALSE, <<DOT, NAME_FOO, DOTDOT, NAME_ZED>>)>>}

\* main 586-588: every target is a directory
ScanArgs ==
    {a \in [tree : Trees, target_paths : TargetLists, include_hidden : BOOLEAN,
            ignore_entries : IgnoreLists] :
        \A k \in 1..Len(a.target_paths) : Node(a.target_paths[k], "dir") \in a.tree}

\* the entries of a directory
Children(tree, base_path) ==
    {node \in tree : /\ Len(node.path) = Len(base_path) + 1
                     /\ SubSeq(node.path, 1, Len(base_path)) = base_path}

Perms(S) == {f \in [1..Cardinality(S) -> S] : IsInjective(f)}

\* os.scandir yields the entries of a directory in arbitrary order: every
\* choice of an order for each of the directories in dirs
RECURSIVE ScanOrders(_, _)
ScanOrders(tree, dirs) ==
    IF dirs = {} THEN {<<>>}
    ELSE LET d == CHOOSE x \in dirs : TRUE
         IN  {(d :> order) @@ rest :
                 order \in Perms(Children(tree, d)),
                 rest \in ScanOrders(tree, dirs \ {d})}

DirPaths(tree) == {node.path : node \in {n \in tree : n.kind = "dir"}}

ScanInit ==
    /\ scan_args \in ScanArgs
    /\ scan_lists = <<>>
    /\ cli_input = <<>>
    /\ ref_text = <<>>
    /\ ref_remote = <<>>
    /\ names_and_paths = <<>>
    /\ max_workers = 1
    /\ use_color = FALSE
    /\ rcpc = "scan"
    /\ results = <<>>
    /\ sem_value = 0
    /\ sem_waiters = <<>>
    /\ taskpc = <<>>
    /\ probe = <<>>
    /\ stdout = <<>>
    /\ git_env = NoEnv
    /\ probe_run = NoProbeRun

\* main 589: one run of _build_scan_list on the tree
BuildScan ==
    /\ rcpc = "scan"
    /\ Len(scan_lists) < MaxRuns
    /\ \E scandir \in ScanOrders(scan_args.tree, DirPaths(scan_args.tree)) :
          scan_lists' = Append(scan_lists,
                               BuildScanList(scan_args.target_paths,
                                             scan_args.include_hidden,
                                             scan_args.ignore_entries, scandir))
    /\ UNCHANGED <<names_and_paths, max_workers, use_color, rcpc, results,
                   sem_value, sem_waiters, taskpc, probe, stdout, git_env,
                   probe_run, ref_text, ref_remote, scan_args, cli_input>>

ScanNext == BuildScan

ScanSpec == ScanInit /\ [][ScanNext]_vars

----------------------------------------------------------------------------
(* main: the max_workers handed to _run_checks *)

\* str() of a natural number
RECURSIVE IntToStr(_)
IntToStr(n) ==
    LET digit == <<"0", "1", "2", "3", "4", "5", "6", "7", "8", "9">>[(n % 10) + 1]
    IN  IF n < 10 THEN <<digit>> ELSE Append(IntToStr(n \div 10), digit)

\* line 82: str(os.cpu_count() or 4)
DefaultMaxWorkers(cpu_count) ==
    IntToStr(IF cpu_count = None \/ cpu_count = Some(0) THEN 4 ELSE cpu_count[1])

\* lines 131-133 over the max_workers lines of the config file: a value is
\* taken only if it is all digits and greater than 0, the last one wins
RECURSIVE CoerceMaxWorkers(_, _)
CoerceMaxWorkers(values, default) ==
    IF values = <<>> THEN default
    ELSE LET before == CoerceMaxWorkers(SubSeq(values, 1, Len(values) - 1), default)
             value == values[Len(values)]
         IN  IF IsDigit(value) /\ ToInt(value) > 0 THEN value ELSE before

\* argparse type=int: int() of the flag's text, an optional sign and digits;
\* anything else is a usage error
ParseIntArg(text) ==
    IF IsDigit(text) THEN [ok |-> TRUE, value |-> ToInt(text)]
    ELSE IF text # <<>> /\ Head(text) = "-" /\ IsDigit(Tail(text))
    THEN [ok |-> TRUE, value |-> 0 - ToInt(Tail(text))]
    ELSE IF text # <<>> /\ Head(text) = "+" /\ IsDigit(Tail(text))
    THEN [ok |-> TRUE, value |-> ToInt(Tail(text))]
    ELSE [ok |-> FALSE, value |-> 0]

\* lines 560-565 and 601: args.max_workers, the flag or else the configured
\* value
ArgsMaxWorkers(cpu_count, config_values, flag) ==
    IF flag = None
    THEN [ok |-> TRUE,
          value |-> ToInt(CoerceMaxWorkers(config_values, DefaultMaxWorkers(cpu_count)))]
    ELSE ParseIntArg(flag[1])

\* the values of the max_workers lines of the config file
ConfigValueLists ==
    {<<>>, <<<<"3">>>>, <<<<"0">>>>, <<<<"-", "1">>>>, <<<<"x">>>>, <<<<>>>>,
     <<<<"1", "2">>>>, <<<<"2">>, <<"0">>>>, <<<<"0", "0", "7">>>>}

\* the text after --max-workers, None without the flag
FlagTexts ==
    {None, Some(<<"1">>), Some(<<"4">>), Some(<<"0">>), Some(<<"-", "2">>),
     Some(<<"+", "3">>), Some(<<"x">>)}

MainInit ==
    /\ cli_input \in [cpu_count : {None, Some(1), Some(2), Some(16)},  \* os.cpu_count()
                      config_values : ConfigValueLists, flag : FlagTexts]
    /\ rcpc = "main"
    /\ max_workers = 0
    /\ names_and_paths = <<>>
    /\ use_color = FALSE
    /\ results = <<>>
    /\ sem_value = 0
    /\ sem_waiters = <<>>
    /\ taskpc = <<>>
    /\ probe = <<>>
    /\ stdout = <<>>
    /\ git_env = NoEnv
    /\ probe_run = NoProbeRun
    /\ ref_text = <<>>
    /\ ref_remote = <<>>
    /\ scan_args = <<>>
    /\ scan_lists = <<>>

\* main 569-606: parse the arguments and call _run_checks(..., args.max_workers, ...),
\* or leave with the usage error of argparse
Main ==
    /\ rcpc = "main"
    /\ LET args == ArgsMaxWorkers(cli_input.cpu_count, cli_input.config_values,
                                  cli_input.flag)
       IN  IF args.ok
           THEN rcpc' = "run_checks" /\ max_workers' = args.value
           ELSE rcpc' = "usage" /\ UNCHANGED max_workers
    /\ UNCHANGED <<names_and_paths, use_color, results, sem_value, sem_waiters,
                   taskpc, probe, stdout, git_env, probe_run, pureVars>>

MainSpec == MainInit /\ [][Main]_vars

----------------------------------------------------------------------------
(* Properties of the scheduler *)

Resolved == {i \in 1..Len(results) : results[i] # None}
InFlight == {i \in 1..Len(probe) : probe[i] = "running"}
Ended == rcpc \in {"returned", "raised"}

\* C1: the number of probes started and not yet returned never exceeds
\* max_workers, for any max_workers >= 1 and any interleaving
C1_InFlightBounded ==
    max_workers >= 1 => Cardinality(InFlight) <= max_workers

\* the gate is full while another task waits for admission
C1_Witness ==
    /\ rcpc = "gather"
    /\ Cardinality(InFlight) = max_workers
    /\ sem_waiters # <<>>

AllProbesReturn == \A i \in 1..N : ProbeOf(i).kind = "returned"

\* C2: when every probe returns, _run_checks eventually returns, and when it
\* has returned no slot is unresolved
C2_ReturnsAllResolved ==
    (max_workers >= 1 /\ AllProbesReturn)
        => /\ <>(rcpc = "returned")
           /\ [](rcpc = "returned" => \A i \in 1..N : results[i] # None)

\* a scan that returned although some task had to wait for a permit
C2_Witness ==
    /\ rcpc = "returned"
    /\ N > max_workers
    /\ \A i \in 1..N : results[i] # None

RepoResultFields ==
    {"name", "path", "is_repo", "branch", "is_clean", "origin_url",
     "upstream_ref", "ahead_count", "behind_count", "error"}

\* C3: every slot starts unresolved; a slot changes only once, from
\* unresolved to the complete result of the probe of its own entry, in the
\* step in which the task of that index finishes, and no other slot changes
\* in that step
C3_SlotWriteOnce ==
    [][/\ (rcpc = "start" /\ rcpc' # "start")
            => \A i \in 1..N : results'[i] = None
       /\ rcpc # "start"
            => \A i \in 1..N :
                 /\ results[i] # None => results'[i] = results[i]
                 /\ results'[i] # results[i]
                      => /\ taskpc[i] = "probing" /\ taskpc'[i] = "done"
                         /\ results'[i] = Some(ProbeOf(i).result)
                         /\ DOMAIN results'[i][1] = RepoResultFields
                         /\ results'[i][1].path = names_and_paths[i][2]
                         /\ \A j \in 1..N \ {i} : results'[j] = results[j]]_vars

\* a later slot is written while an earlier one is still unresolved
C3_Witness ==
    \E i, j \in 1..Len(results) : i < j /\ results[i] = None /\ results[j] # None

----------------------------------------------------------------------------
(* Properties of the output *)

IsFrame(item) == item.call = "_print_block"
Frames == {k \in 1..Len(stdout) : IsFrame(stdout[k])}
Erases == {k \in 1..Len(stdout) : ~IsFrame(stdout[k])}

CellText(cell) == cell.colored.text
CellWidth(cell) == Len(cell.colored.text) + cell.pad

\* a row is a pending row when its branch column holds the dimmed pending
\* label and every later column is empty
IsPendingRow(row) ==
    /\ CellText(row[2]) = LABEL_PENDING
    /\ \A c \in 3..Len(row) : CellText(row[c]) = ""

IsNotInitRow(row) ==
    /\ CellText(row[2]) = LABEL_NOT_INIT
    /\ \A c \in 3..Len(row) : CellText(row[c]) = ""

\* the texts the row of a resolved repository must show
ShowsRepo(row, r) ==
    /\ CellText(row[2]) =
         (IF r.branch = None \/ r.branch = Some("") THEN LABEL_UNKNOWN
          ELSE IF r.branch = Some("HEAD") THEN LABEL_DETACHED ELSE r.branch[1])
    /\ CellText(row[3]) =
         (IF r.is_clean = None THEN LABEL_UNKNOWN
          ELSE IF r.is_clean[1] THEN LABEL_CLEAN ELSE LABEL_DIRTY)

\* C4: in the frame written by a step, row i shows the name of entry i and
\* the state that slot i has at that moment: the pending row if and only if
\* the slot is unresolved, else the row of that slot's result
C4_RowShowsOwnSlot ==
    [][(Len(stdout') > Len(stdout))
         => LET frame == stdout'[Len(stdout')].writes IN
            /\ IsFrame(stdout'[Len(stdout')])
            /\ \A i \in 1..N :
                 /\ i <= Len(frame)
                 /\ CellText(frame[i][1]) = names[i]
                 /\ IsPendingRow(frame[i]) <=> results'[i] = None
                 /\ results'[i] # None
                      => IF results'[i][1].is_repo
                         THEN ShowsRepo(frame[i], results'[i][1])
                         ELSE IsNotInitRow(frame[i])]_vars

\* a live frame in which a later row is resolved and an earlier one pending
C4_Witness ==
    /\ Len(stdout) > 1
    /\ IsFrame(stdout[Len(stdout)])
    /\ \E i, j \in 1..N :
         /\ i < j
         /\ IsPendingRow(stdout[Len(stdout)].writes[i])
         /\ ~IsPendingRow(stdout[Len(stdout)].writes[j])

\* C5: every frame written has exactly as many rows as there are entries
C5_FrameRowCount ==
    \A k \in Frames : Len(stdout[k].writes) = N

\* a redraw with some rows resolved and some pending
C5_Witness ==
    /\ Cardinality(Frames) >= 2
    /\ Resolved # {}
    /\ Resolved # 1..N
    /\ N >= 2

\* the escape sequences that erase n lines and leave the cursor on the first
IsEraseOf(item, n) ==
    /\ item.call = "_clear_lines"
    /\ Len(item.writes) = n + 2
    /\ item.writes[1] = CursorUp(n)
    /\ \A k \in 2..(n + 1) : item.writes[k] = EraseLine
    /\ item.writes[n + 2] = CursorUp(n)

\* C6: in live mode the output is the initial frame of N rows followed, for
\* each completion, by one erase of N lines and one frame of N rows; every
\* erase covers exactly the rows of the frame before it
C6_LiveProtocol ==
    (allow_dynamic /\ rcpc # "start")
        => /\ Len(stdout) = 1 + 2 * Cardinality(Resolved)
           /\ \A k \in 1..Len(stdout) :
                IF k % 2 = 1
                THEN IsFrame(stdout[k]) /\ Len(stdout[k].writes) = N
                ELSE /\ IsEraseOf(stdout[k], N)
                     /\ IsEraseOf(stdout[k], Len(stdout[k - 1].writes))

\* a live scan after its second redraw
C6_Witness ==
    /\ allow_dynamic
    /\ Cardinality(Resolved) >= 2
    /\ Len(stdout) >= 5

UsesColor(item) ==
    /\ IsFrame(item)
    /\ \E i \in 1..Len(item.writes) : \E c \in 1..Len(item.writes[i]) :
         item.writes[i][c].colored.pre # "" \/ item.writes[i][c].colored.post # ""

\* C7: when stdout is not a terminal, nothing is written before every slot is
\* resolved, a scan that returns has written exactly one frame, and no erase,
\* cursor movement or colour code is ever written
C7_StaticOutput ==
    (~use_color)
        => /\ Erases = {}
           /\ \A k \in Frames : ~UsesColor(stdout[k])
           /\ Cardinality(Frames) <= 1
           /\ Frames # {} => (rcpc = "returned" /\ Resolved = 1..N)
           /\ rcpc = "returned" => Cardinality(Frames) = 1

\* a scan of several entries that returned without a terminal
C7_Witness ==
    /\ ~use_color
    /\ rcpc = "returned"
    /\ N >= 2
    /\ Len(stdout) = 1

\* the width of each column of a frame
FrameWidths(lines) ==
    [c \in 1..Len(lines[1]) |->
        SetMax({CellWidth(lines[i][c]) : i \in 1..Len(lines)})]

C9_FailureContained ==
    Ended => \A i \in 1..N :
               /\ taskpc[i] \in {"done", "failed"}
               /\ ProbeOf(i).kind = "returned" => results[i] # None

----------------------------------------------------------------------------
(* Properties of _check_repo *)

\* the script of a repository with an upstream whose fetch fails and whose
\* divergence count succeeds
FetchFailsCountSucceeds(sc) ==
    /\ Len(sc) = 7
    /\ \A k \in 1..5 : sc[k][2].code = 0
    /\ sc[6][1] = GIT_FETCH_ORIGIN /\ sc[6][2].code # 0
    /\ sc[7][1] = GIT_COUNT /\ sc[7][2].code = 0

\* C10 as stated: when the fetch fails and the count succeeds, _check_repo
\* returns a result with error None and both counts present
C10_FetchFailureTolerated ==
    (probe_run # NoProbeRun /\ FetchFailsCountSucceeds(git_env.script))
        => /\ probe_run.kind = "returned"
           /\ probe_run.result.error = None
           /\ probe_run.result.ahead_count # None
           /\ probe_run.result.behind_count # None

\* C18: in live mode the slot write of a task and the redraw it triggers are
\* one uninterrupted step: a step that writes a slot writes exactly one slot
\* and appends exactly that task's erase and redraw, no step writes output
\* without writing a slot, and the k-th redraw of a scan of N entries shows
\* exactly k resolved rows and N - k pending rows
C18_SerializedRedraws ==
    [][(allow_dynamic /\ rcpc = "gather" /\ (results' # results \/ stdout' # stdout))
         => /\ Cardinality({i \in 1..N : results'[i] # results[i]}) = 1
            /\ \A i \in 1..N : results'[i] # results[i] => results[i] = None
            /\ Len(stdout') = Len(stdout) + 2
            /\ SubSeq(stdout', 1, Len(stdout)) = stdout
            /\ ~IsFrame(stdout'[Len(stdout) + 1])
            /\ IsFrame(stdout'[Len(stdout) + 2])
            /\ LET k == (Len(stdout') - 1) \div 2
                   frame == stdout'[Len(stdout')].writes
               IN  /\ Len(frame) = N
                   /\ Cardinality({i \in 1..N : ~IsPendingRow(frame[i])}) = k
                   /\ Cardinality({i \in 1..N : IsPendingRow(frame[i])}) = N - k
                   /\ {i \in 1..N : ~IsPendingRow(frame[i])}
                        = {i \in 1..N : results'[i] # None}]_vars

\* the second redraw of a live scan of three entries has been written while
\* the probe of the third entry has already returned
C18_Witness ==
    /\ allow_dynamic /\ rcpc = "gather" /\ N = 3
    /\ Len(stdout) = 5
    /\ Cardinality(Resolved) = 2
    /\ \E j \in 1..N : probe[j] = "returned" /\ taskpc[j] = "probing"

\* the entries whose probe never returns
Hung == {i \in 1..N : ProbeOf(i).kind = "hung"}
\* every entry whose probe returns a result has its slot resolved
ReturningResolved == \A i \in 1..N : ProbeOf(i).kind = "returned" => i \in Resolved
\* the event loop has no callback to run and no probe can end
Quiescent == ~ENABLED Next

----------------------------------------------------------------------------
(* Properties of _check_repo under the scripted _run_git *)

\* the probe returned after reading the reply to the divergence count
CountRead ==
    /\ probe_run.kind = "returned"
    /\ probe_run.calls # <<>>
    /\ probe_run.calls[Len(probe_run.calls)] = GIT_COUNT

CountReply == git_env.script[Len(probe_run.calls)][2]

\* C11: the first number of the rev-list count becomes ahead_count and the
\* second becomes behind_count: "3 1" gives ahead 3 and behind 1, "0 2"
\* gives ahead 0 and behind 2
C11_FirstCountIsAhead ==
    (CountRead /\ CountReply.code = 0
        /\ CountReply.out \in {<<"3", " ", "1">>, <<"0", " ", "2">>})
        => /\ probe_run.result.ahead_count = Some(ToInt(<<CountReply.out[1]>>))
           /\ probe_run.result.behind_count = Some(ToInt(<<CountReply.out[3]>>))

\* the scripted repository is a work tree with a branch, a status and an
\* upstream ref
ScriptHasUpstream(sc) ==
    /\ \A k \in {1, 2, 3, 5} : sc[k][2].code = 0
    /\ sc[5][1] = GIT_UPSTREAM /\ sc[5][2].out # ""

\* C12: for a repository with an upstream, _check_repo issues exactly the
\* work-tree check, the branch, the status, the origin URL, the upstream ref,
\* the fetch of the upstream's remote and the divergence count, in that order
C12_CallSequence ==
    (probe_run # NoProbeRun /\ ScriptHasUpstream(git_env.script))
        => probe_run.calls = <<GIT_WORK_TREE, GIT_BRANCH, GIT_STATUS, GIT_ORIGIN,
                               GIT_UPSTREAM, GIT_FETCH_ORIGIN, GIT_COUNT>>

----------------------------------------------------------------------------
(* Properties of the sync column *)

\* the table row of the probed folder has been printed
RowPrinted == rcpc = "test" /\ stdout # <<>>
\* the text of its sync column
SyncText == CellText(stdout[1].writes[1][5])

\* C14: a resolved repository with an upstream ref, ahead_count 0 and
\* behind_count 0 shows 'in-sync' in the sync column, never 'no-upstream'
C14_InSyncShown ==
    (/\ RowPrinted
     /\ probe_run.result.is_repo
     /\ probe_run.result.upstream_ref # None
     /\ probe_run.result.ahead_count = Some(0)
     /\ probe_run.result.behind_count = Some(0))
        => SyncText = LABEL_IN_SYNC /\ SyncText # LABEL_NO_UPSTREAM

\* the row of a repository that is level with origin/main has been printed
C14_Witness ==
    /\ RowPrinted
    /\ probe_run.result.upstream_ref = Some("origin/main")
    /\ probe_run.result.ahead_count = Some(0)
    /\ probe_run.result.behind_count = Some(0)
    /\ SyncText = LABEL_IN_SYNC

\* C20: the sync label of a resolved repository: 'error' when error is
\* present; otherwise 'no-upstream' when upstream_ref is absent; otherwise
\* 'in-sync' when ahead = behind = 0; otherwise the nonzero 'ahead N' and
\* 'behind M' joined by ', '.  'no-upstream' is shown only when upstream_ref
\* is absent, also when the divergence counts are absent
C20_SyncLabelRule ==
    (RowPrinted /\ probe_run.result.is_repo) =>
        LET r == probe_run.result
            a == r.ahead_count[1]
            b == r.behind_count[1]
        IN  /\ r.error # None => SyncText = LABEL_ERROR
            /\ (r.error = None /\ r.upstream_ref = None) => SyncText = LABEL_NO_UPSTREAM
            /\ (r.error = None /\ r.upstream_ref # None
                    /\ r.ahead_count # None /\ r.behind_count # None) =>
                  SyncText = (IF a = 0 /\ b = 0 THEN "in-sync"
                              ELSE IF b = 0 THEN "ahead " \o ToString(a)
                              ELSE IF a = 0 THEN "behind " \o ToString(b)
                              ELSE "ahead " \o ToString(a) \o ", behind " \o ToString(b))
            /\ SyncText = LABEL_NO_UPSTREAM => r.upstream_ref = None

----------------------------------------------------------------------------
(* Properties of the enumeration *)

TargetSet == {scan_args.target_paths[k] : k \in 1..Len(scan_args.target_paths)}
ParentOf(path) == SubSeq(path, 1, Len(path) - 1)
NameOf(path) == path[Len(path)]
IsUnder(path, base) == Len(base) < Len(path) /\ SubSeq(path, 1, Len(base)) = base
ListedPaths(list) == {list[k][2] : k \in 1..Len(list)}

\* the directories that a run has listed: the roots without a root above
\* them and the roots that the run has come across
ListedBases(list) ==
    {b \in TargetSet : (\A t \in TargetSet : ~IsUnder(b, t)) \/ b \in ListedPaths(list)}

\* the child is neither an ignore path nor below one, and is not hidden
\* unless hidden folders are included
IsWanted(node, base_path) ==
    /\ node.kind = "dir"
    /\ \A ig \in {ResolveIgnorePaths(base_path, scan_args.ignore_entries)[k] :
                     k \in 1..Len(scan_args.ignore_entries)} :
          ~IsPrefixOf(ig, node.path)
    /\ (scan_args.include_hidden \/ NameOf(node.path)[1] # ".")

\* C15: of the immediate children of a listed directory, exactly the
\* directories are returned whose path is neither equal to nor below a
\* resolved ignore path and whose name does not start with "." unless hidden
\* folders are included; a sibling that only shares a name prefix with an
\* ignored folder is returned
C15_ListedIffWanted ==
    \A r \in 1..Len(scan_lists) :
        \A b \in ListedBases(scan_lists[r]) :
            \A node \in Children(scan_args.tree, b) :
                node.path \in ListedPaths(scan_lists[r]) <=> IsWanted(node, b)

\* foo is ignored and left out, its sibling foo-bar is returned
C15_Witness ==
    /\ Len(scan_lists) >= 1
    /\ scan_args.ignore_entries = <<IgnoreEntry(FALSE, <<NAME_FOO>>)>>
    /\ Node(Append(WORK, NAME_FOO), "dir") \in scan_args.tree
    /\ Append(WORK, NAME_FOO) \notin ListedPaths(scan_lists[1])
    /\ Append(WORK, NAME_FOO_BAR) \in ListedPaths(scan_lists[1])

\* the prefix that the display name of entry k carries before the name
DisplayPrefix(list, k) ==
    SubSeq(list[k][1], 1, Len(list[k][1]) - Len(NameOf(list[k][2])))

\* C16: the children of a base appear in case-insensitive alphabetical
\* order, and the entries enumerated under a child that is itself a root
\* come immediately after it and before its next sibling, each with the
\* nesting prefix
C16_OrderAndNesting ==
    \A r \in 1..Len(scan_lists) :
        LET list == scan_lists[r] IN
        /\ \A i, j \in 1..Len(list) :
              (i < j /\ ParentOf(list[i][2]) = ParentOf(list[j][2]))
                  => ~StrLess(Lower(NameOf(list[j][2])), Lower(NameOf(list[i][2])))
        /\ \A i \in 1..Len(list) :
              list[i][2] \in TargetSet =>
                  LET under == {j \in 1..Len(list) : IsUnder(list[j][2], list[i][2])}
                  IN  /\ under = (i + 1)..(i + Cardinality(under))
                      /\ \A j \in under :
                            ParentOf(list[j][2]) = list[i][2] =>
                                list[j][1] = DisplayPrefix(list, i) \o NEST_PREFIX
                                                \o NameOf(list[j][2])

\* foo is a root inside the root /w: x and Y are listed under foo, in this
\* order and with the prefix, and Zed follows them
C16_Witness ==
    /\ Len(scan_lists) >= 1
    /\ Len(scan_lists[1]) >= 4
    /\ \E i \in 1..(Len(scan_lists[1]) - 3) :
          /\ scan_lists[1][i] = <<NAME_FOO, Append(WORK, NAME_FOO)>>
          /\ scan_lists[1][i + 1] = <<NEST_PREFIX \o NAME_X, WORK \o <<NAME_FOO, NAME_X>>>>
          /\ scan_lists[1][i + 2] = <<NEST_PREFIX \o NAME_Y, WORK \o <<NAME_FOO, NAME_Y>>>>
          /\ scan_lists[1][i + 3] = <<NAME_ZED, Append(WORK, NAME_ZED)>>

\* C17: two runs of _build_scan_list on the same tree, roots, ignore entries
\* and hidden setting return the identical ordered list, whatever the names
\* of the children and whatever order the directory listing yields
C17_SameListEveryRun ==
    \A i, j \in 1..Len(scan_lists) : scan_lists[i] = scan_lists[j]

\* no directory path appears twice in a list
NoPathTwice(list) ==
    \A i, j \in 1..Len(list) : list[i][2] = list[j][2] => i = j

\* C21: every configured root is enumerated exactly once: the unfiltered
\* immediate children of each configured root appear in the list and no
\* path appears twice, also when a root lies any number of levels below
\* another root or below a filtered folder of another root
C21_EveryRootOnce ==
    \A r \in 1..Len(scan_lists) :
        /\ NoPathTwice(scan_lists[r])
        /\ \A b \in TargetSet :
              \A node \in Children(scan_args.tree, b) :
                  IsWanted(node, b) => node.path \in ListedPaths(scan_lists[r])

----------------------------------------------------------------------------
(* Properties of main *)

\* C22: the concurrency limit handed to _run_checks, and so to its
\* semaphore, is always an integer >= 1, whether it comes from the
\* max_workers entry of the config file or from the --max-workers flag
C22_LimitAtLeastOne ==
    rcpc = "run_checks" => max_workers \in Nat /\ max_workers >= 1

====
